---- MODULE Spec2Model ----
(***************************************************************************)
(* A model of the parallel interaction-combinator evaluator of strandal:   *)
(* the slot store, the atomic wire word, the per-task free-pointer buffer, *)
(* the statistics counters and the reduction engine of                     *)
(* src/strandal/runtime.rs.  Every access to shared memory (a read of a    *)
(* slot, a swap on a wire word, a free of a slot) is one step of one task, *)
(* so that TLC explores the interleavings the work-stealing pool allows.   *)
(***************************************************************************)
EXTENDS Integers, Sequences, FiniteSets, Bags, TLC

\* ------------------------------------------------------------ bounds
\* Number of slots of the store the model lets an evaluation use.
Capacity == 14
\* Number of tasks one evaluation may spawn in the model.
MaxTasks == 6

\* ------------------------------------------------------------ terms
\* A TermPtr is a natural: 0 is the unboxed TermPtr::Era, i > 0 is
\* TermPtr::Ptr(i), the slot index i.
Era == 0
\* Option<Ptr>::None (a cell that lives on the stack, a missing label).
None == 0

Slots == 1..Capacity

\* Option<(TermPtr, TermPtr)>: <<>> is None, <<p0, p1>> is Some((p0, p1)).
NoPorts == <<>>

\* Cell::Lam(ports), Cell::App(ports), Cell::Dup(ports, lbl)
Lam(ports) == [kind |-> "Lam", ports |-> ports, lbl |-> None]
App(ports) == [kind |-> "App", ports |-> ports, lbl |-> None]
Dup(ports, lbl) == [kind |-> "Dup", ports |-> ports, lbl |-> lbl]
NoCell == [kind |-> "none", ports |-> NoPorts, lbl |-> None]

\* The value of a wire word: the result of Var::set is Option<VarValue>,
\* with None the unset word 0.
Unset == [t |-> "Unset", p |-> 0]
VEra == [t |-> "Era", p |-> 0]
VCell(p) == [t |-> "Cell", p |-> p]
VVar(p) == [t |-> "Var", p |-> p]

IsBound(w) == w.t \in {"Era", "Cell"}

\* ------------------------------------------------------------ store
\* One slot of the arena: Option<Term>.  live = FALSE is the None written by
\* free (or a slot never allocated); the bytes of the freed content stay in
\* the arena, which only matters to a task that still holds a reference.
EmptySlot == [live |-> FALSE, kind |-> "empty", w |-> Unset, c |-> NoCell]
VarSlot(w) == [live |-> TRUE, kind |-> "var", w |-> w, c |-> NoCell]
CellSlot(c) == [live |-> TRUE, kind |-> "cell", w |-> Unset, c |-> c]

\* ------------------------------------------------------------ statistics
StatNames == {"anni_era_era", "anni_app_app", "anni_lam_lam", "anni_dup_dup",
              "comm_dup_dup", "comm_era_app", "comm_era_lam", "comm_era_dup",
              "comm_app_lam", "comm_app_dup", "comm_lam_dup",
              "binds", "connects", "alloc_cells", "alloc_vars"}
RuleNames == StatNames \ {"binds", "connects", "alloc_cells", "alloc_vars"}

\* LocalStats::new / GlobalStats::new
NewStats == [n \in StatNames |-> 0]
\* the inc_* methods of LocalStats
inc(st, n) == [st EXCEPT ![n] = @ + 1]
incBy(st, n, k) == [st EXCEPT ![n] = @ + k]

\* GlobalStats::update: every local field is added to the global field of
\* the same name.
\* (an update that leaves out the connects field)
update_WithoutConnects(g, st) ==
    [n \in StatNames |-> IF n = "connects" THEN g[n] ELSE g[n] + st[n]]
update(g, st) == [n \in StatNames |-> g[n] + st[n]]

annihilations(g) ==
    g["anni_era_era"] + g["anni_app_app"] + g["anni_lam_lam"] + g["anni_dup_dup"]
\* (a sum that leaves out comm_era_dup)
commutations_WithoutEraDup(g) ==
    g["comm_dup_dup"] + g["comm_era_app"] + g["comm_era_lam"]
        + g["comm_app_lam"] + g["comm_app_dup"] + g["comm_lam_dup"]
commutations(g) ==
    g["comm_dup_dup"] + g["comm_era_app"] + g["comm_era_lam"] + g["comm_era_dup"]
        + g["comm_app_lam"] + g["comm_app_dup"] + g["comm_lam_dup"]
GlobalStats_allocs(g) == g["alloc_vars"] + g["alloc_cells"]

\* ------------------------------------------------------------ free pointers
\* FreePtrs: the per-task buffer of slots the task owes to release.
NewFreePtrs == <<>>
push(fp, ptr) == IF ptr = None THEN fp ELSE Append(fp, ptr)
\* split(n): the child takes one n-th of the buffer (half of it for n = 2),
\* the task keeps the rest.
splitCount(fp, n) == Len(fp) \div n
splitChild(fp, n) == SubSeq(fp, Len(fp) - splitCount(fp, n) + 1, Len(fp))
splitRest(fp, n) == SubSeq(fp, 1, Len(fp) - splitCount(fp, n))

pop(fp) == fp[Len(fp)]
popRest(fp) == SubSeq(fp, 1, Len(fp) - 1)

\* ------------------------------------------------------------ operands
\* The two sides of the equation a task is evaluating.  A TermPtr::Ptr is
\* "ptr" until the task has read its slot (store.get); then it is a "cell"
\* (the Cell copied to the stack, with its Option<Ptr>) or a "var" (a &Var).
\* "cellptr" is a pointer taken out of a wire word, which the code unwraps
\* as a cell.
ONone == [k |-> "none", p |-> 0, c |-> NoCell]
OEra == [k |-> "era", p |-> 0, c |-> NoCell]
OPtr(p) == [k |-> "ptr", p |-> p, c |-> NoCell]
OCellPtr(p) == [k |-> "cellptr", p |-> p, c |-> NoCell]
OCell(p, c) == [k |-> "cell", p |-> p, c |-> c]
OVar(p) == [k |-> "var", p |-> p, c |-> NoCell]
OTerm(tp) == IF tp = Era THEN OEra ELSE OPtr(tp)

Resolved(o) == o.k \in {"era", "cell", "var"}

\* ------------------------------------------------------------ rewrite rules
\* The result of applying one rule on the current task: the task's
\* statistics and free-pointer buffer after the rule's own increments and
\* pushes, the slots it allocates (in order, from the store's next index),
\* the child tasks it spawns (each with the divisor of its split), the
\* equation it goes on to evaluate itself (l = ONone: nothing), and whether
\* the rule panics.
Res(st, fp, allocs, spawns, l, r, panics) ==
    [st |-> st, fp |-> fp, allocs |-> allocs, spawns |-> spawns,
     l |-> l, r |-> r, panics |-> panics, rule |-> "none", args |-> {}]
\* The call of a rule: its name and, for each agent it is given, the slot
\* pointer together with the kind and the ports the rule takes it to have
\* (app_ptr with Cell::App(app_ports), and so on).
Arg(ptr, kind, ports) == [ptr |-> ptr, kind |-> kind, ports |-> ports]
Call(res, rule, args) == [res EXCEPT !.rule = rule, !.args = args]
Child(sk, l, r, n) == [sk |-> sk, l |-> l, r |-> r, n |-> n]

\* (an annihilation of two erasers that is not counted)
anni_era_era_NotCounted(fp, st) ==
    Call(Res(st, fp, <<>>, <<>>, ONone, ONone, FALSE), "anni_era_era", {})
anni_era_era(fp, st) ==
    Call(Res(inc(st, "anni_era_era"), fp, <<>>, <<>>, ONone, ONone, FALSE),
         "anni_era_era", {})

anni_lam_lam(left_ptr, left_ports, right_ptr, right_ports, fp, st) ==
    Call(Res(inc(st, "anni_lam_lam"), push(push(fp, left_ptr), right_ptr),
             <<>>, <<>>, ONone, ONone, FALSE),
         "anni_lam_lam", {Arg(left_ptr, "Lam", left_ports), Arg(right_ptr, "Lam", right_ports)})

anni_app_app(left_ptr, left_ports, right_ptr, right_ports, fp, st) ==
    Call(Res(inc(st, "anni_app_app"), push(push(fp, left_ptr), right_ptr),
             <<>>, <<>>, ONone, ONone, FALSE),
         "anni_app_app", {Arg(left_ptr, "App", left_ports), Arg(right_ptr, "App", right_ports)})

anni_dup_dup(left_ptr, left_ports, right_ptr, right_ports, fp, st) ==
    LET fp1 == push(push(fp, left_ptr), right_ptr) IN
    IF left_ports = NoPorts /\ right_ports = NoPorts
    THEN Res(st, fp1, <<>>, <<>>, ONone, ONone, FALSE)
    ELSE IF left_ports = NoPorts \/ right_ports = NoPorts
    THEN LET ps == IF left_ports = NoPorts THEN right_ports ELSE left_ports
         IN Res(st, fp1, <<>>, <<>>, OTerm(ps[1]), OTerm(ps[2]), FALSE)
    ELSE Res(st, fp1, <<>>,
             <<Child("eqn", OTerm(left_ports[1]), OTerm(right_ports[1]), 2)>>,
             OTerm(left_ports[2]), OTerm(right_ports[2]), FALSE)

comm_dup_dup(left_ptr, left_ports, right_ptr, right_ports, fp, st) ==
    LET fp1 == push(push(fp, left_ptr), right_ptr) IN
    IF left_ports = NoPorts /\ right_ports = NoPorts
    THEN Res(st, fp1, <<>>, <<>>, ONone, ONone, FALSE)
    ELSE Res(st, fp1, <<>>, <<>>, ONone, ONone, TRUE)   \* todo!()

reduce_dup_dup(left_ptr, left_ports, left_lbl, right_ptr, right_ports, right_lbl, fp, st) ==
    LET args == {Arg(left_ptr, "Dup", left_ports), Arg(right_ptr, "Dup", right_ports)} IN
    IF left_lbl = right_lbl
    THEN Call(anni_dup_dup(left_ptr, left_ports, right_ptr, right_ports, fp,
                           inc(st, "anni_dup_dup")), "anni_dup_dup", args)
    ELSE Call(comm_dup_dup(left_ptr, left_ports, right_ptr, right_ports, fp,
                           inc(st, "comm_dup_dup")), "comm_dup_dup", args)

\* comm_era_app, comm_era_lam and commute_era_dup have one body; counter is
\* the counter each of them increments.
\* (an erasure that reaches the first port only)
comm_era_FirstPortOnly(counter, cell_ptr, ports, fp, st) ==
    LET st1 == inc(st, counter)
        fp1 == push(fp, cell_ptr)
    IN IF ports # NoPorts
       THEN Res(st1, fp1, <<>>, <<Child("era", OEra, OTerm(ports[1]), 2)>>,
                ONone, ONone, FALSE)
       ELSE anni_era_era(fp1, st1)
comm_era(counter, cell_ptr, ports, fp, st) ==
    LET st1 == inc(st, counter)
        fp1 == push(fp, cell_ptr)
    IN IF ports # NoPorts
       THEN Res(st1, fp1, <<>>, <<Child("era", OEra, OTerm(ports[1]), 2)>>,
                OEra, OTerm(ports[2]), FALSE)
       ELSE anni_era_era(fp1, st1)

comm_era_app(app_ptr, app_ports, fp, st) ==
    Call(comm_era("comm_era_app", app_ptr, app_ports, fp, st),
         "comm_era_app", {Arg(app_ptr, "App", app_ports)})
comm_era_lam(lam_ptr, lam_ports, fp, st) ==
    Call(comm_era("comm_era_lam", lam_ptr, lam_ports, fp, st),
         "comm_era_lam", {Arg(lam_ptr, "Lam", lam_ports)})
commute_era_dup(dup_ptr, dup_ports, dup_lbl, fp, st) ==
    Call(comm_era("comm_era_dup", dup_ptr, dup_ports, fp, st),
         "commute_era_dup", {Arg(dup_ptr, "Dup", dup_ports)})

\* (an application meeting a lambda that wires the first ports only)
commute_app_lam_FirstPortsOnly(app_ptr, app_ports, lam_ptr, lam_ports, fp, st) ==
    LET st1 == inc(st, "comm_app_lam")
        fp1 == push(push(fp, lam_ptr), app_ptr)
        res ==
          IF app_ports # NoPorts /\ lam_ports # NoPorts
          THEN Res(st1, fp1, <<>>,
                   <<Child("eqn", OTerm(app_ports[1]), OTerm(lam_ports[1]), 2)>>,
                   ONone, ONone, FALSE)
          ELSE Res(st1, fp1, <<>>, <<>>, OEra, OEra, FALSE)
    IN Call(res, "commute_app_lam",
            {Arg(app_ptr, "App", app_ports), Arg(lam_ptr, "Lam", lam_ports)})
commute_app_lam(app_ptr, app_ports, lam_ptr, lam_ports, fp, st) ==
    LET st1 == inc(st, "comm_app_lam")
        fp1 == push(push(fp, lam_ptr), app_ptr)
        res ==
          IF app_ports # NoPorts /\ lam_ports # NoPorts
          THEN Res(st1, fp1, <<>>,
                   <<Child("eqn", OTerm(app_ports[1]), OTerm(lam_ports[1]), 2)>>,
                   OTerm(app_ports[2]), OTerm(lam_ports[2]), FALSE)
          ELSE IF app_ports # NoPorts
          THEN Res(st1, fp1, <<>>, <<Child("eqn", OTerm(app_ports[1]), OEra, 2)>>,
                   OTerm(app_ports[2]), OEra, FALSE)
          ELSE IF lam_ports # NoPorts
          THEN Res(st1, fp1, <<>>, <<Child("eqn", OEra, OTerm(lam_ports[1]), 2)>>,
                   OEra, OTerm(lam_ports[2]), FALSE)
          ELSE Res(st1, fp1, <<>>, <<>>, OEra, OEra, FALSE)
    IN Call(res, "commute_app_lam",
            {Arg(app_ptr, "App", app_ports), Arg(lam_ptr, "Lam", lam_ports)})

\* left_fn / right_fn of commute: the closures the callers pass build a cell
\* of a fixed kind from the ports and the label they are given.
MkCell(kind, ports, lbl) ==
    IF kind = "Dup" THEN Dup(ports, lbl)
    ELSE IF kind = "App" THEN App(ports) ELSE Lam(ports)

commute(left_ptr, left_ports, left_fn, left_alloc, right_ptr, right_ports, right_fn, right_alloc, fp, st, nxt) ==
    LET fp1 == push(push(fp, left_ptr), right_ptr) IN
    IF left_ports = NoPorts /\ right_ports = NoPorts
    THEN Res(st, fp1, <<>>, <<>>, ONone, ONone, FALSE)
    ELSE
    LET x1 == nxt
        x2 == nxt + 1
        x3 == nxt + 2
        x4 == nxt + 3
        vars4 == <<VarSlot(Unset), VarSlot(Unset), VarSlot(Unset), VarSlot(Unset)>>
        st1 == incBy(st, "alloc_vars", 4)
        panicL == left_alloc /\ fp1 = <<>>
        left_1_ptr == IF left_alloc /\ ~panicL THEN pop(fp1) ELSE None
        fp2 == IF left_alloc /\ ~panicL THEN popRest(fp1) ELSE fp1
        left_0 == MkCell(left_fn, <<x1, x3>>, left_1_ptr)
        left_0_ptr == IF left_alloc THEN nxt + 4 ELSE None
        allocL == IF left_alloc THEN <<CellSlot(left_0)>> ELSE <<>>
        left_1 == MkCell(left_fn, <<x4, x2>>, left_0_ptr)
        panicR == right_alloc /\ fp2 = <<>>
        fp3 == IF right_alloc /\ ~panicR THEN popRest(fp2) ELSE fp2
        right_0 == MkCell(right_fn, <<x4, x1>>, left_1_ptr)
        allocR == IF right_alloc THEN <<CellSlot(right_0)>> ELSE <<>>
        right_1 == MkCell(left_fn, <<x2, x3>>, left_0_ptr)
        st2 == incBy(st1, "alloc_cells", Len(allocL) + Len(allocR))
    IN IF panicL
       THEN Res(st1, fp1, vars4, <<>>, ONone, ONone, TRUE)
       ELSE IF panicR
       THEN Res(incBy(st1, "alloc_cells", Len(allocL)), fp2, vars4 \o allocL,
                <<>>, ONone, ONone, TRUE)
       ELSE IF left_ports = NoPorts
       THEN Res(st2, fp3, vars4 \o allocL \o allocR,
                <<Child("cell", OCell(None, left_0), OTerm(right_ports[1]), 3),
                  Child("cell", OCell(None, left_1), OTerm(right_ports[2]), 2)>>,
                OCell(None, right_0), OCell(None, right_1), FALSE)
       ELSE IF right_ports = NoPorts
       THEN Res(st2, fp3, vars4 \o allocL \o allocR,
                <<Child("cell", OCell(None, right_0), OTerm(left_ports[1]), 3),
                  Child("cell", OCell(None, right_1), OTerm(left_ports[2]), 2)>>,
                OCell(None, left_0), OCell(None, left_1), FALSE)
       ELSE Res(st2, fp3, vars4 \o allocL \o allocR,
                <<Child("cell", OCell(None, right_0), OTerm(left_ports[1]), 4),
                  Child("cell", OCell(None, right_1), OTerm(left_ports[2]), 3),
                  Child("cell", OCell(None, left_0), OTerm(right_ports[1]), 2)>>,
                OCell(None, left_1), OTerm(right_ports[2]), FALSE)

commute_app_dup(app_ptr, app_ports, dup_ptr, dup_ports, dup_lbl, fp, st, nxt) ==
    Call(commute(app_ptr, app_ports, "App", FALSE, dup_ptr, dup_ports, "Dup", TRUE,
                 fp, inc(st, "comm_app_dup"), nxt),
         "commute_app_dup", {Arg(app_ptr, "App", app_ports), Arg(dup_ptr, "Dup", dup_ports)})

commute_lam_dup(lam_ptr, lam_ports, dup_ptr, dup_ports, dup_lbl, fp, st, nxt) ==
    Call(commute(lam_ptr, lam_ports, "App", FALSE, dup_ptr, dup_ports, "Dup", TRUE,
                 fp, inc(st, "comm_lam_dup"), nxt),
         "commute_lam_dup", {Arg(lam_ptr, "Lam", lam_ports), Arg(dup_ptr, "Dup", dup_ports)})

eval_era_cell(cell_ptr, cell, fp, st) ==
    IF cell.kind = "Dup" THEN commute_era_dup(cell_ptr, cell.ports, cell.lbl, fp, st)
    ELSE IF cell.kind = "App" THEN comm_era_app(cell_ptr, cell.ports, fp, st)
    ELSE comm_era_lam(cell_ptr, cell.ports, fp, st)

eval_cell_cell(left_ptr, left, right_ptr, right, fp, st, nxt) ==
    LET lk == left.kind
        rk == right.kind
        app_ports == IF lk = "App" THEN left.ports ELSE right.ports
        lam_ports == IF lk = "Lam" THEN left.ports ELSE right.ports
        dup_ports == IF lk = "Dup" THEN left.ports ELSE right.ports
        dup_lbl == IF lk = "Dup" THEN left.lbl ELSE right.lbl
    IN IF lk = "App" /\ rk = "App"
       THEN anni_app_app(left_ptr, left.ports, right_ptr, right.ports, fp, st)
       ELSE IF lk = "Lam" /\ rk = "Lam"
       THEN anni_lam_lam(left_ptr, left.ports, right_ptr, right.ports, fp, st)
       ELSE IF lk = "Dup" /\ rk = "Dup"
       THEN reduce_dup_dup(left_ptr, left.ports, left.lbl,
                           right_ptr, right.ports, right.lbl, fp, st)
       ELSE IF {lk, rk} = {"App", "Dup"}
       THEN commute_app_dup(right_ptr, app_ports, left_ptr, dup_ports, dup_lbl,
                            fp, st, nxt)
       ELSE IF {lk, rk} = {"App", "Lam"}
       THEN commute_app_lam(right_ptr, app_ports, left_ptr, lam_ports, fp, st)
       ELSE commute_lam_dup(left_ptr, lam_ports, right_ptr, dup_ports, dup_lbl,
                            fp, st, nxt)


\* ------------------------------------------------------------ state
VARIABLES
    store,      \* the arena: slot index -> slot
    next,       \* Store.next: the next fresh index
    tasks,      \* the tasks spawned on the rayon scope, in spawn order
    stats,      \* Runtime.stats: the global counters
    head,       \* Net.head: the head wires
    net,        \* which initial net is being evaluated
    fired,      \* history: the bag of operand pairs a rule was applied to
    faults,     \* history: the slot faults that have happened
    bound_writes, \* history: per slot, how often its word went from not bound to bound
    first,      \* the head contents a first run of the same net ended with
    body,       \* Net.body: the equations eval has not drained yet
    returned,   \* Runtime::eval has returned to its caller
    mem,        \* Store.mem of a store driven through its own interface
    len,        \* Store.len of that store
    ops,        \* the call of each thread that is inside a method of that store
    handed,     \* history: the allocations that have returned, <<index, content>>
    nfreed,     \* history: the frees that found a content and completed
    word,       \* Var.value of one wire driven through Var::set, and its last writer
    calls,      \* the Var::set call of each caller on that wire
    state_vars, \* ParserState.vars: the identifiers seen once, with their wire
    parsed,     \* history: the identifiers parsed, <<name, pointer returned>>
    heap,       \* a Heap driven through its own interface: mem, next, len
    cell_ptrs,  \* history: the allocations of that heap, request and pointer returned
    heap_call   \* the last set_cell or consume_cell on that heap and its outcome

\* the variables of the store driven through its own interface
svars == <<mem, len, ops, handed, nfreed, word, calls,
           state_vars, parsed, heap, cell_ptrs, heap_call>>
vars == <<store, next, tasks, stats, head, net, fired, faults, bound_writes, first,
          body, returned, svars>>

\* ------------------------------------------------------------ tasks
\* The assignment a walk performs on each wire it visits (the assign_var
\* closure): var.link(p), var.assign_era() or var.assign_cell(p) of cell c,
\* with p = None when the cell still lives on the stack.
NoAsg == [op |-> "none", p |-> 0, c |-> NoCell]
AsgLink(p) == [op |-> "link", p |-> p, c |-> NoCell]
AsgEra == [op |-> "era", p |-> 0, c |-> NoCell]
AsgCell(p, c) == [op |-> "cell", p |-> p, c |-> c]

\* A task: the closure passed to scope.spawn, with the position it has
\* reached.  sk is the function that spawned it (spawn_eval_equation "eqn",
\* spawn_eval_cell_term "cell", spawn_eval_era_term "era").
IdleRegs == [l |-> ONone, r |-> ONone, var_ptr |-> 0, prev |-> 0, other |-> 0,
             asg |-> NoAsg, cont |-> "none", lp |-> 0, rp |-> 0, rps |-> 0,
             needvar |-> FALSE, needcell |-> 0]
Task(pc, sk, regs, fp, st) ==
    [pc |-> pc, sk |-> sk, l |-> regs.l, r |-> regs.r, var_ptr |-> regs.var_ptr,
     prev |-> regs.prev, other |-> regs.other, asg |-> regs.asg,
     cont |-> regs.cont, lp |-> regs.lp, rp |-> regs.rp, rps |-> regs.rps,
     needvar |-> regs.needvar, needcell |-> regs.needcell,
     fp |-> fp, st |-> st]
DoneTask == Task("done", "none", IdleRegs, NewFreePtrs, NewStats)
PanicTask == Task("panic", "none", IdleRegs, NewFreePtrs, NewStats)

\* walk_var(var_ptr, var, None, ..., assign_var) is about to swap.
StartWalk(tk, var_ptr, asg, cont) ==
    [tk EXCEPT !.pc = "walk", !.l = ONone, !.r = ONone, !.var_ptr = var_ptr,
               !.prev = None, !.other = 0, !.asg = asg, !.cont = cont,
               !.needvar = FALSE, !.needcell = 0]

bind_era(tk, var_ptr) ==
    StartWalk([tk EXCEPT !.st = inc(@, "binds")], var_ptr, AsgEra, "bind_era")

bind_cell(tk, var_ptr, cell_ptr, cell) ==
    StartWalk([tk EXCEPT !.st = inc(@, "binds")], var_ptr,
              AsgCell(cell_ptr, cell), "bind_cell")

\* connect_vars up to its first walk: right is linked to left.
connect_vars(tk, left_ptr, right_ptr) ==
    [StartWalk([tk EXCEPT !.st = inc(@, "connects")], right_ptr,
               AsgLink(left_ptr), "conn1")
       EXCEPT !.lp = left_ptr, !.rp = right_ptr]

\* eval_equation / eval_era_term / eval_cell_term / eval_var_term /
\* eval_era_ptr once both sides have been read: an equation with a wire on
\* one side is a bind or a connect; the others wait for their rule.
classify(tk) ==
    IF ~(tk.pc = "eval" /\ Resolved(tk.l) /\ Resolved(tk.r)) THEN tk
    ELSE IF tk.l.k = "var" /\ tk.r.k = "var" THEN connect_vars(tk, tk.l.p, tk.r.p)
    ELSE IF tk.l.k = "var" /\ tk.r.k = "era" THEN bind_era(tk, tk.l.p)
    ELSE IF tk.l.k = "era" /\ tk.r.k = "var" THEN bind_era(tk, tk.r.p)
    ELSE IF tk.l.k = "var" /\ tk.r.k = "cell" THEN bind_cell(tk, tk.l.p, tk.r.p, tk.r.c)
    ELSE IF tk.l.k = "cell" /\ tk.r.k = "var" THEN bind_cell(tk, tk.r.p, tk.l.p, tk.l.c)
    ELSE tk

Eval(tk, l, r) ==
    classify([tk EXCEPT !.pc = "eval", !.l = l, !.r = r, !.var_ptr = 0,
                        !.prev = 0, !.other = 0, !.asg = NoAsg, !.cont = "none",
                        !.lp = 0, !.rp = 0, !.rps = 0,
                        !.needvar = FALSE, !.needcell = 0])

NewTask(sk, l, r, fp) == Eval(Task("eval", sk, IdleRegs, fp, NewStats), l, r)

\* The end of the spawned closure, after the evaluation proper:
\* spawn_eval_equation frees its pointers and then merges its statistics,
\* spawn_eval_cell_term merges and then frees, spawn_eval_era_term merges
\* and drops its buffer.
Finish(tk) ==
    LET t0 == Task("free", tk.sk, IdleRegs, tk.fp, tk.st) IN
    IF tk.sk = "eqn" /\ tk.fp # <<>> THEN t0 ELSE [t0 EXCEPT !.pc = "update"]

AfterUpdate(tk) ==
    IF tk.sk = "cell" /\ tk.fp # <<>>
    THEN Task("free", tk.sk, IdleRegs, tk.fp, NewStats)
    ELSE DoneTask

AfterFree(tk, fp) ==
    IF fp # <<>> THEN [tk EXCEPT !.fp = fp]
    ELSE IF tk.sk = "eqn" THEN [tk EXCEPT !.fp = fp, !.pc = "update"]
    ELSE DoneTask

\* ------------------------------------------------------------ store operations
\* Store::alloc of each content of a sequence, from the index next on.
alloc(s, nxt, contents) ==
    [i \in Slots |-> IF i >= nxt /\ i < nxt + Len(contents)
                     THEN contents[i - nxt + 1] ELSE s[i]]

\* Store::free: the slot becomes None.
free(s, ptr) == [s EXCEPT ![ptr].live = FALSE]

\* The children a rule spawns, each taking its split of the buffer in turn.
RECURSIVE SpawnAll(_, _)
SpawnAll(spawns, fp) ==
    IF spawns = <<>> THEN [tasks |-> <<>>, fp |-> fp]
    ELSE LET c == Head(spawns)
             rest == SpawnAll(Tail(spawns), splitRest(fp, c.n))
         IN [tasks |-> <<NewTask(c.sk, c.l, c.r, splitChild(fp, c.n))>> \o rest.tasks,
             fp |-> rest.fp]

\* The rule eval_equation selects for two sides that are agents or Era.
interact(l, r, fp, st, nxt) ==
    IF l.k = "era" /\ r.k = "era" THEN anni_era_era(fp, st)
    ELSE IF l.k = "era" THEN eval_era_cell(r.p, r.c, fp, st)
    ELSE IF r.k = "era" THEN eval_era_cell(l.p, l.c, fp, st)
    ELSE eval_cell_cell(l.p, l.c, r.p, r.c, fp, st, nxt)

\* The identity of an operand in the history of firings: its slot, 0 for
\* Era, -1 for a cell that lives on the stack only.
Ident(o) == IF o.k = "era" THEN 0 ELSE IF o.p = None THEN -1 ELSE o.p
Pair(a, b) == IF a <= b THEN <<a, b>> ELSE <<b, a>>
Fire(l, r) == fired (+) SetToBag({Pair(Ident(l), Ident(r))})

SetTask(t, tk) == [tasks EXCEPT ![t] = tk]

\* ------------------------------------------------------------ the store alone
\* Store::new(capacity): an arena of capacity uninitialised entries (indices
\* 0 .. capacity - 1), next = 1, len = 0.  Index 0 is NIL and never handed
\* out.
StoreCapacity == 3
\* the cap on the next counter: indices 1 .. MaxIndex are handed out
MaxIndex == 3
\* the two threads that call into the store
Threads == {1, 2}
\* A u32 is kept as its two 16-bit halves <<high, low>>, so that the
\* arithmetic of the AtomicU32 wraps at 2^32 as in the program.
Half == 65536
U32(n) == <<n \div Half, n % Half>>
U32Max == <<Half - 1, Half - 1>>
u32_lt(a, b) == a[1] < b[1] \/ (a[1] = b[1] /\ a[2] < b[2])
fetch_add(a) == IF a[2] < Half - 1 THEN <<a[1], a[2] + 1>> ELSE <<(a[1] + 1) % Half, 0>>
fetch_sub(a) == IF a[2] > 0 THEN <<a[1], a[2] - 1>> ELSE <<(a[1] - 1) % Half, Half - 1>>
Uninit == [live |-> FALSE, kind |-> "uninit", w |-> Unset, c |-> NoCell]
\* a thread outside every method of the store
IdleOp == [pc |-> "idle", index |-> 0, content |-> EmptySlot, old |-> EmptySlot]
\* the contents alloc_cell is called with (Some(cell) or None)
CellContents == {CellSlot(Lam(<<Era, Era>>)), EmptySlot}
StoreNew ==
    /\ mem = [i \in 0..(StoreCapacity - 1) |-> Uninit]
    /\ len = U32(0)
    /\ ops = [th \in Threads |-> IdleOp]
    /\ handed = <<>>
    /\ nfreed = 0

\* ------------------------------------------------------------ the wire word
\* The AtomicU64 of a Var: bits 63, 62 and 61 (Some, VarRef, Era) as a number
\* 0..7 and the low 32 bits as a u32; the bits between are never set.
\* A VarValue is [t, p] with p the 32-bit index of the pointer.
NumCallers == 3
Callers == 1..NumCallers
Indices == {U32(1), U32(Half), U32Max}
VarValues ==
    {[t |-> "Unset", p |-> U32(0)], [t |-> "Era", p |-> U32(0)]}
        \cup {[t |-> k, p |-> i] : k \in {"Var", "Cell"}, i \in Indices}
\* impl From<VarValue> for u64
\* (an encoding that leaves out the VarRef bit 62)
VarValue_into_u64_NoVarBit(v) ==
    IF v.t = "Unset" THEN <<0, U32(0)>>
    ELSE IF v.t = "Cell" THEN <<4, v.p>>
    ELSE IF v.t = "Era" THEN <<4 + 1, U32(0)>>
    ELSE <<4, v.p>>
VarValue_into_u64(v) ==
    IF v.t = "Unset" THEN <<0, U32(0)>>
    ELSE IF v.t = "Cell" THEN <<4, v.p>>
    ELSE IF v.t = "Era" THEN <<4 + 1, U32(0)>>
    ELSE <<4 + 2, v.p>>
\* impl TryFrom<u64> for VarValue; Ptr::new asserts index > 0.
VarValue_try_from(value) ==
    IF value[1] \div 4 = 0 THEN [t |-> "Unset", p |-> U32(0)]
    ELSE IF (value[1] \div 2) % 2 = 0
    THEN IF value[1] % 2 = 0
         THEN IF value[2] = U32(0) THEN [t |-> "panic", p |-> U32(0)]
              ELSE [t |-> "Cell", p |-> value[2]]
         ELSE [t |-> "Era", p |-> U32(0)]
    ELSE IF value[2] = U32(0) THEN [t |-> "panic", p |-> U32(0)]
         ELSE [t |-> "Var", p |-> value[2]]
\* Var::new(): the word 0, which no caller has written.
WireNew ==
    /\ word = [value |-> <<0, U32(0)>>, by |-> 0]
    /\ calls = [c \in Callers |-> [pc |-> "idle", term_ref |-> VarValue_try_from(<<0, U32(0)>>),
                                    old |-> VarValue_try_from(<<0, U32(0)>>), seen |-> 0]]

\* ------------------------------------------------------------ the parser's table
\* ParserState::new(net): no identifier is pending.
ParserNew ==
    /\ state_vars = [name \in {} |-> 0]
    /\ parsed = <<>>

\* ------------------------------------------------------------ the heap
\* the number of slots of the heap that is driven through its own interface
HeapCapacity == 2
\* Heap::new(capacity): an arena of uninitialised entries, next = 0, len = 0.
\* An entry is Option<Term>: kind "none" is None, "Ctr" and "Dup" are cells
\* with their two ports.
HeapNew ==
    /\ heap = [mem |-> [i \in 0..(HeapCapacity - 1) |-> [kind |-> "uninit", ports |-> <<>>]],
               next |-> 0, len |-> 0]
    /\ cell_ptrs = <<>>
    /\ heap_call = [op |-> "none", ptr |-> 0, value |-> [kind |-> "none", ports |-> <<>>],
                    status |-> "none", ports |-> <<>>]

\* ------------------------------------------------------------ nets
\* The initial nets the evaluator is run on: the slots the builder
\* allocated (slot i is slots[i]), the equation buffer and the head wires.
\* Every wire is used exactly twice (a head counts as a use) and every agent
\* is referenced once.
Net(slots, eqns, hd) == [slots |-> slots, body |-> eqns, head |-> hd]
U == VarSlot(Unset)

I(x) == Lam(<<x, x>>)

NetNames ==
    {"era_era", "bind_era", "conn_era_era", "conn_lam_era", "conn_lam_dup",
     "head_conn_era", "head_conn_lam", "era_dup", "era_app_none", "lam_lam",
     "dup_dup", "dup_dup_heads", "dup_dup_comm", "app_lam", "lam_dup", "app_dup",
     "bound_lam_dup", "self_conn", "lam_dup_lbl"}

InitialNet(n) ==
    CASE n = "era_era" ->
            \* * ~ *
            Net(<<>>, <<<<Era, Era>>>>, <<>>)
      [] n = "bind_era" ->
            \* head r;  r ~ *
            Net(<<U>>, <<<<1, Era>>>>, <<1>>)
      [] n = "conn_era_era" ->
            \* x ~ y  &  x ~ *  &  y ~ *
            Net(<<U, U>>, <<<<1, 2>>, <<1, Era>>, <<2, Era>>>>, <<>>)
      [] n = "conn_lam_era" ->
            \* x ~ y  &  x ~ (* *)  &  y ~ *
            Net(<<U, U, CellSlot(Lam(<<Era, Era>>))>>,
                <<<<1, 2>>, <<1, 3>>, <<2, Era>>>>, <<>>)
      [] n = "conn_lam_dup" ->
            \* x ~ y  &  x ~ (* *)  &  [* *] ~ y
            Net(<<U, U, CellSlot(Lam(<<Era, Era>>)), CellSlot(Dup(NoPorts, None))>>,
                <<<<1, 2>>, <<1, 3>>, <<4, 2>>>>, <<>>)
      [] n = "head_conn_era" ->
            \* head r;  r ~ x  &  x ~ *
            Net(<<U, U>>, <<<<1, 2>>, <<2, Era>>>>, <<1>>)
      [] n = "head_conn_lam" ->
            \* head r;  x ~ r  &  (* *) ~ x
            Net(<<U, U, CellSlot(Lam(<<Era, Era>>))>>,
                <<<<2, 1>>, <<3, 2>>>>, <<1>>)
      [] n = "era_dup" ->
            \* heads a, b;  * ~ [a b]
            Net(<<U, U, CellSlot(Dup(<<1, 2>>, None))>>, <<<<Era, 3>>>>, <<1, 2>>)
      [] n = "era_app_none" ->
            \* * ~ an application whose ports are not written yet
            Net(<<CellSlot(App(NoPorts))>>, <<<<Era, 1>>>>, <<>>)
      [] n = "lam_lam" ->
            \* (x x) ~ (y y)
            Net(<<U, U, CellSlot(I(1)), CellSlot(I(2))>>, <<<<3, 4>>>>, <<>>)
      [] n = "dup_dup" ->
            \* [x x] ~ [y y], equal labels
            Net(<<U, U, CellSlot(Dup(<<1, 1>>, None)), CellSlot(Dup(<<2, 2>>, None))>>,
                <<<<3, 4>>>>, <<>>)
      [] n = "dup_dup_heads" ->
            \* heads a, b, c, d;  [a b] ~ [c d], equal labels
            Net(<<U, U, U, U, CellSlot(Dup(<<1, 2>>, None)), CellSlot(Dup(<<3, 4>>, None))>>,
                <<<<5, 6>>>>, <<1, 2, 3, 4>>)
      [] n = "dup_dup_comm" ->
            \* heads a, b, c, d;  [a b]_5 ~ [c d]_6, labels differ
            Net(<<U, U, U, U, CellSlot(Dup(<<1, 2>>, 5)), CellSlot(Dup(<<3, 4>>, 6))>>,
                <<<<5, 6>>>>, <<1, 2, 3, 4>>)
      [] n = "app_lam" ->
            \* head r;  (x x) ~ @(r (y y))
            Net(<<U, U, U, CellSlot(I(2)), CellSlot(I(3)), CellSlot(App(<<1, 5>>))>>,
                <<<<4, 6>>>>, <<1>>)
      [] n = "lam_dup" ->
            \* heads a, b;  (x x) ~ [a b]
            Net(<<U, U, U, CellSlot(I(3)), CellSlot(Dup(<<1, 2>>, None))>>,
                <<<<4, 5>>>>, <<1, 2>>)
      [] n = "bound_lam_dup" ->
            \* x ~ a lambda whose ports are not written yet  &  x ~ [* *]
            Net(<<U, CellSlot(Lam(NoPorts)), CellSlot(Dup(<<Era, Era>>, None))>>,
                <<<<1, 2>>, <<1, 3>>>>, <<>>)
      [] n = "self_conn" ->
            \* x ~ x
            Net(<<U>>, <<<<1, 1>>>>, <<>>)
      [] n = "lam_dup_lbl" ->
            \* (* *) ~ a duplicator with a label whose ports are not written yet
            Net(<<CellSlot(Lam(<<Era, Era>>)), CellSlot(Dup(NoPorts, 2))>>,
                <<<<1, 2>>>>, <<>>)
      [] n = "app_dup" ->
            \* heads a, b;  @(a *) ~ [b *]
            Net(<<U, U, CellSlot(App(<<1, Era>>)), CellSlot(Dup(<<2, Era>>, None))>>,
                <<<<3, 4>>>>, <<1, 2>>)

\* The state Runtime::eval is called in on net n: the builder's slots, the
\* equation buffer and the head, and no task yet.
StartState(n) ==
    LET N == InitialNet(n) IN
    [store |-> [i \in Slots |-> IF i <= Len(N.slots) THEN N.slots[i] ELSE EmptySlot],
     next |-> Len(N.slots) + 1,
     head |-> N.head,
     body |-> N.body,
     tasks |-> <<>>]

NoResult == <<"none">>

InitNet(n) ==
    /\ net = n
    /\ store = StartState(n).store
    /\ next = StartState(n).next
    /\ head = StartState(n).head
    /\ tasks = StartState(n).tasks
    /\ body = StartState(n).body
    /\ returned = FALSE
    /\ stats = NewStats
    /\ fired = EmptyBag
    /\ faults = {}
    /\ bound_writes = [i \in Slots |-> 0]
    /\ first = NoResult
    /\ StoreNew
    /\ WireNew
    /\ ParserNew
    /\ HeapNew

\* ------------------------------------------------------------ actions
Init == \E n \in NetNames : InitNet(n)

Panic(t, fault) ==
    /\ tasks' = SetTask(t, PanicTask)
    /\ faults' = faults \cup {fault}

\* store.get(ptr) of the next side of the equation that is still a pointer.
eval_equation(t) ==
    LET tk == tasks[t]
        left == ~Resolved(tk.l)
        o == IF left THEN tk.l ELSE tk.r
        slot == store[o.p]
        res == IF slot.kind = "cell" THEN OCell(o.p, slot.c) ELSE OVar(o.p)
    IN /\ tk.pc = "eval"
       /\ ~(Resolved(tk.l) /\ Resolved(tk.r))
       /\ IF ~slot.live THEN Panic(t, "read_freed")
          ELSE IF o.k = "cellptr" /\ slot.kind = "var" THEN Panic(t, "wrong_kind")
          ELSE /\ tasks' = SetTask(t, classify(IF left THEN [tk EXCEPT !.l = res]
                                                       ELSE [tk EXCEPT !.r = res]))
               /\ UNCHANGED faults
       /\ UNCHANGED <<store, next, stats, head, net, fired, bound_writes>>

\* One rewrite rule applied to two agents (or Era): its counters, pushes,
\* allocations and spawns, and the sub-equation the task goes on with.
apply_rule(t) ==
    LET tk == tasks[t]
        res == interact(tk.l, tk.r, tk.fp, tk.st, next)
        sp == SpawnAll(res.spawns, res.fp)
        tk1 == [tk EXCEPT !.fp = sp.fp, !.st = res.st]
    IN /\ tk.pc = "eval"
       /\ Resolved(tk.l) /\ Resolved(tk.r)
       /\ next + Len(res.allocs) - 1 <= Capacity
       /\ Len(tasks) + Len(res.spawns) <= MaxTasks
       /\ store' = alloc(store, next, res.allocs)
       /\ next' = next + Len(res.allocs)
       /\ fired' = Fire(tk.l, tk.r)
       /\ IF res.panics THEN Panic(t, "rule_panic")
          ELSE /\ tasks' = SetTask(t, IF res.l.k = "none" THEN Finish(tk1)
                                      ELSE Eval(tk1, res.l, res.r)) \o sp.tasks
               /\ UNCHANGED faults
       /\ UNCHANGED <<stats, head, net, bound_writes>>

\* (a connect that binds the value found on the right to the right wire again)
Return_BindRight(tk, val) ==
    IF tk.cont = "bind_era"
    THEN IF val.t = "Era" THEN Finish([tk EXCEPT !.st = inc(@, "anni_era_era")])
         ELSE IF val.t = "Cell" THEN Eval(tk, OEra, OCellPtr(val.p))
         ELSE Finish(tk)
    ELSE IF tk.cont = "bind_cell"
    THEN IF val.t = "Era" THEN Eval(tk, OEra, OCell(tk.asg.p, tk.asg.c))
         ELSE IF val.t = "Cell"
         THEN Eval(tk, OCell(tk.asg.p, tk.asg.c), OCellPtr(val.p))
         ELSE Finish(tk)
    ELSE IF tk.cont = "conn1"
    THEN IF val.t = "Era" THEN bind_era(tk, tk.rp)
         ELSE IF val.t = "Cell"
         THEN [tk EXCEPT !.pc = "pre", !.var_ptr = tk.lp, !.prev = 0, !.asg = NoAsg,
                         !.needvar = FALSE, !.needcell = val.p]
         ELSE [StartWalk(tk, tk.lp, AsgLink(val.p), "conn2") EXCEPT !.rps = val.p]
    ELSE \* conn2
         IF val.t = "Era"
         THEN IF tk.rps # tk.rp
              THEN [tk EXCEPT !.pc = "pre", !.var_ptr = tk.rps, !.prev = 0,
                              !.asg = NoAsg, !.needvar = TRUE, !.needcell = 0]
              ELSE bind_era(tk, tk.rps)
         ELSE IF val.t = "Cell"
         THEN [tk EXCEPT !.pc = "pre", !.var_ptr = tk.rps, !.prev = 0, !.asg = NoAsg,
                         !.needvar = (tk.rps # tk.rp), !.needcell = val.p]
         ELSE Finish(tk)

\* What the caller of walk_var does with the value the walk returns.
Return(tk, val) ==
    IF tk.cont = "bind_era"
    THEN IF val.t = "Era" THEN Finish([tk EXCEPT !.st = inc(@, "anni_era_era")])
         ELSE IF val.t = "Cell" THEN Eval(tk, OEra, OCellPtr(val.p))
         ELSE Finish(tk)
    ELSE IF tk.cont = "bind_cell"
    THEN IF val.t = "Era" THEN Eval(tk, OEra, OCell(tk.asg.p, tk.asg.c))
         ELSE IF val.t = "Cell"
         THEN Eval(tk, OCell(tk.asg.p, tk.asg.c), OCellPtr(val.p))
         ELSE Finish(tk)
    ELSE IF tk.cont = "conn1"
    THEN IF val.t = "Era" THEN bind_era(tk, tk.lp)
         ELSE IF val.t = "Cell"
         THEN [tk EXCEPT !.pc = "pre", !.var_ptr = tk.lp, !.prev = 0, !.asg = NoAsg,
                         !.needvar = FALSE, !.needcell = val.p]
         ELSE [StartWalk(tk, tk.lp, AsgLink(val.p), "conn2") EXCEPT !.rps = val.p]
    ELSE \* conn2
         IF val.t = "Era"
         THEN IF tk.rps # tk.rp
              THEN [tk EXCEPT !.pc = "pre", !.var_ptr = tk.rps, !.prev = 0,
                              !.asg = NoAsg, !.needvar = TRUE, !.needcell = 0]
              ELSE bind_era(tk, tk.rps)
         ELSE IF val.t = "Cell"
         THEN [tk EXCEPT !.pc = "pre", !.var_ptr = tk.rps, !.prev = 0, !.asg = NoAsg,
                         !.needvar = (tk.rps # tk.rp), !.needcell = val.p]
         ELSE Finish(tk)

\* The match on the swapped-out value in walk_var.
AfterSwap(tk, old) ==
    IF old.t = "Unset" THEN Return(tk, VVar(tk.var_ptr))
    ELSE IF old.t = "Var"
    THEN IF old.p # tk.prev THEN [tk EXCEPT !.pc = "wfree", !.other = old.p]
         ELSE Return(tk, VVar(tk.var_ptr))
    ELSE Return([tk EXCEPT !.fp = push(@, tk.var_ptr)], old)

\* assign_var(var, stats): the swap on the wire's word (Var::set).  The
\* bind_cell closure first allocates the cell when it has no slot yet.  A
\* swap through a reference to a slot that has been freed meanwhile is
\* undefined: it reads the stale word or an empty one.
walk_var(t) ==
    LET tk == tasks[t]
        v == tk.var_ptr
        slot == store[v]
        fresh == tk.asg.op = "cell" /\ tk.asg.p = None
        new == IF tk.asg.op = "link" THEN VVar(tk.asg.p)
               ELSE IF tk.asg.op = "era" THEN VEra
               ELSE VCell(IF fresh THEN next ELSE tk.asg.p)
        s1 == IF fresh THEN alloc(store, next, <<CellSlot(tk.asg.c)>>) ELSE store
        tk1 == IF fresh THEN [tk EXCEPT !.st = inc(@, "alloc_cells")] ELSE tk
    IN /\ tk.pc = "walk"
       /\ fresh => next <= Capacity
       /\ \E old \in (IF slot.live THEN {slot.w} ELSE {slot.w, Unset}) :
            /\ tasks' = SetTask(t, AfterSwap(tk1, old))
            /\ fired' = IF tk.cont = "bind_era" /\ old.t = "Era"
                        THEN Fire(OEra, OEra) ELSE fired
       /\ store' = [s1 EXCEPT ![v].w = new]
       /\ next' = IF fresh THEN next + 1 ELSE next
       /\ faults' = IF slot.live THEN faults ELSE faults \cup {"use_after_free"}
       /\ bound_writes' = IF IsBound(new) /\ ~IsBound(slot.w)
                          THEN [bound_writes EXCEPT ![v] = @ + 1]
                          ELSE bound_writes
       /\ UNCHANGED <<stats, head, net>>

\* store.free(var_ptr) of a wire found linked.
walk_free(t) ==
    LET tk == tasks[t] IN
    /\ tk.pc = "wfree"
    /\ IF store[tk.var_ptr].live
       THEN /\ store' = free(store, tk.var_ptr)
            /\ tasks' = SetTask(t, [tk EXCEPT !.pc = "wget"])
            /\ UNCHANGED faults
       ELSE /\ Panic(t, "free_empty")
            /\ UNCHANGED store
    /\ UNCHANGED <<next, stats, head, net, fired, bound_writes>>

\* get_var(store, other_var_ptr) and the recursive call of walk_var.
walk_get(t) ==
    LET tk == tasks[t]
        slot == store[tk.other]
    IN /\ tk.pc = "wget"
       /\ IF ~slot.live THEN Panic(t, "read_freed")
          ELSE IF slot.kind # "var" THEN Panic(t, "wrong_kind")
          ELSE /\ tasks' = SetTask(t, [tk EXCEPT !.pc = "walk", !.prev = tk.var_ptr,
                                                 !.var_ptr = tk.other, !.other = 0])
               /\ UNCHANGED faults
       /\ UNCHANGED <<store, next, stats, head, net, fired, bound_writes>>

\* connect_vars turning into a bind: get_var(right_ptr_set) when the walk
\* ended on another wire, get_cell(cell_ptr) of a cell found bound.
connect_get(t) ==
    LET tk == tasks[t]
        p == IF tk.needvar THEN tk.var_ptr ELSE tk.needcell
        slot == store[p]
    IN /\ tk.pc = "pre"
       /\ IF ~slot.live THEN Panic(t, "read_freed")
          ELSE IF slot.kind # (IF tk.needvar THEN "var" ELSE "cell")
          THEN Panic(t, "wrong_kind")
          ELSE /\ tasks' = SetTask(t,
                     IF tk.needvar
                     THEN IF tk.needcell = 0 THEN bind_era(tk, tk.var_ptr)
                          ELSE [tk EXCEPT !.needvar = FALSE]
                     ELSE bind_cell(tk, tk.var_ptr, tk.needcell, slot.c))
               /\ UNCHANGED faults
       /\ UNCHANGED <<store, next, stats, head, net, fired, bound_writes>>

\* Runtime::free_ptrs, one pop and free at a time.
free_ptrs(t) ==
    LET tk == tasks[t]
        ptr == pop(tk.fp)
    IN /\ tk.pc = "free"
       /\ IF store[ptr].live
          THEN /\ store' = free(store, ptr)
               /\ tasks' = SetTask(t, AfterFree(tk, popRest(tk.fp)))
               /\ UNCHANGED faults
          ELSE /\ Panic(t, "free_empty")
               /\ UNCHANGED store
       /\ UNCHANGED <<next, stats, head, net, fired, bound_writes>>

\* self.stats.update(stats) at the end of a task.
stats_update(t) ==
    LET tk == tasks[t] IN
    /\ tk.pc = "update"
    /\ stats' = update(stats, tk.st)
    /\ tasks' = SetTask(t, AfterUpdate(tk))
    /\ UNCHANGED <<store, next, head, net, fired, faults, bound_writes>>

Step ==
    \E t \in DOMAIN tasks :
        \/ eval_equation(t)
        \/ apply_rule(t)
        \/ walk_var(t)
        \/ walk_free(t)
        \/ walk_get(t)
        \/ connect_get(t)
        \/ free_ptrs(t)
        \/ stats_update(t)

\* Runtime::eval, inside rayon::scope: net.body.drain(..) spawns one
\* spawn_eval_equation per equation and leaves the buffer empty.  A task that
\* is spawned but has not run yet is a task the scheduler has not picked,
\* so the drain is one step.
eval_drain ==
    /\ body # <<>>
    /\ ~returned
    /\ tasks' = tasks \o [i \in 1..Len(body) |->
                    NewTask("eqn", OTerm(body[i][1]), OTerm(body[i][2]), NewFreePtrs)]
    /\ body' = <<>>
    /\ UNCHANGED <<store, next, stats, head, net, fired, faults, bound_writes, first,
                   returned, svars>>

\* rayon::scope returns when the closure and every task spawned on the scope
\* have completed; a panic of a task is resumed in the caller instead.
\* (a scope that returned when its closure ends, without joining the tasks)
ScopeDrained_NoJoin == body = <<>>
ScopeDrained == body = <<>> /\ \A t \in DOMAIN tasks : tasks[t].pc = "done"

eval_return ==
    /\ ~returned
    /\ ScopeDrained
    /\ returned' = TRUE
    /\ UNCHANGED <<store, next, tasks, stats, head, net, fired, faults, bound_writes,
                   first, body, svars>>

Next ==
    \/ Step /\ UNCHANGED <<first, body, returned, svars>>
    \/ eval_drain
    \/ eval_return

Spec == Init /\ [][Next]_vars

\* ------------------------------------------------------------ run states
\* eval has returned to its caller.
Returned == returned
Panicked == \E t \in DOMAIN tasks : tasks[t].pc = "panic"
\* the scope has ended: the buffer is drained and every task has completed
\* or panicked.
Stopped == body = <<>> /\ \A t \in DOMAIN tasks : tasks[t].pc \in {"done", "panic"}

\* What reading a head wire out of the store gives, without slot indices:
\* the kind of value its word holds and, for an agent, the agent's kind.
Content(h) ==
    LET slot == store[h] IN
    IF ~slot.live THEN "freed"
    ELSE IF slot.w.t = "Cell"
    THEN IF store[slot.w.p].live /\ store[slot.w.p].kind = "cell"
         THEN store[slot.w.p].c.kind ELSE "dangling"
    ELSE slot.w.t
HeadContents == [i \in DOMAIN head |-> Content(head[i])]

\* ------------------------------------------------------------ two runs
\* A second, independent run of Runtime::eval on the same initial net, after
\* the first one has returned; first keeps what the first run ended with.
Rerun ==
    /\ Returned
    /\ first = NoResult
    /\ first' = HeadContents
    /\ store' = StartState(net).store
    /\ next' = StartState(net).next
    /\ tasks' = StartState(net).tasks
    /\ body' = StartState(net).body
    /\ returned' = FALSE
    /\ stats' = NewStats
    /\ fired' = EmptyBag
    /\ faults' = {}
    /\ bound_writes' = [i \in Slots |-> 0]
    /\ UNCHANGED <<head, net, svars>>

NextTwice == Next \/ Rerun

SpecTwice == Init /\ [][NextTwice]_vars
\* ------------------------------------------------------------ the store's methods
\* The variables of the evaluator, which the store's own methods leave alone.
rvars == <<store, tasks, stats, head, net, fired, bound_writes, first, body, returned,
           word, calls, state_vars, parsed, heap, cell_ptrs, heap_call>>

\* alloc_cell / alloc_var, first statement: index = next.fetch_add(1) and the
\* assertion index < u32::MAX.
\* (an allocation that reads next and stores the incremented value in a
\* second step loses increments; here the increment is lost outright)
alloc_next_LostIncrement(th, content) ==
    /\ ops[th].pc = "idle"
    /\ next <= MaxIndex
    /\ next' = next
    /\ ops' = [ops EXCEPT ![th] = [IdleOp EXCEPT !.pc = "write", !.index = next, !.content = content]]
    /\ UNCHANGED <<mem, len, handed, nfreed, faults, rvars>>
alloc_next(th, content) ==
    /\ ops[th].pc = "idle"
    /\ next <= MaxIndex
    /\ next' = next + 1
    /\ IF u32_lt(U32(next), U32Max)
       THEN /\ ops' = [ops EXCEPT ![th] = [IdleOp EXCEPT !.pc = "write", !.index = next,
                                               !.content = content]]
            /\ UNCHANGED faults
       ELSE /\ ops' = [ops EXCEPT ![th] = [IdleOp EXCEPT !.pc = "panic"]]
            /\ faults' = faults \cup {"store_full"}
    /\ UNCHANGED <<mem, len, handed, nfreed, rvars>>

alloc_cell(th) == \E term \in CellContents : alloc_next(th, term)
alloc_var(th) == alloc_next(th, VarSlot(Unset))

\* self.mem.add(index).write(content).  A write at an index outside the
\* arena is undefined: it lands in foreign memory and the call goes on, or
\* the thread dies on it.
alloc_write(th) ==
    LET op == ops[th] IN
    /\ op.pc = "write"
    /\ IF op.index \in DOMAIN mem
       THEN /\ mem' = [mem EXCEPT ![op.index] = op.content]
            /\ ops' = [ops EXCEPT ![th] = [op EXCEPT !.pc = "count"]]
            /\ UNCHANGED faults
       ELSE /\ faults' = faults \cup {"out_of_bounds"}
            /\ \E pc \in {"count", "panic"} : ops' = [ops EXCEPT ![th] = [op EXCEPT !.pc = pc]]
            /\ UNCHANGED mem
    /\ UNCHANGED <<next, len, handed, nfreed, rvars>>

\* self.len.fetch_add(1) and the return of the pointer.
alloc_return(th) ==
    LET op == ops[th] IN
    /\ op.pc = "count"
    /\ len' = fetch_add(len)
    /\ handed' = Append(handed, <<op.index, op.content>>)
    /\ ops' = [ops EXCEPT ![th] = IdleOp]
    /\ UNCHANGED <<mem, next, nfreed, faults, rvars>>

\* free_cell / free_var of a pointer into the arena that an allocation
\* returned: item.replace(None) is a plain read followed by a plain write,
\* then the match on the value read.
free_read(th) ==
    /\ ops[th].pc = "idle"
    /\ \E i \in DOMAIN handed :
        LET ptr == handed[i][1] IN
        /\ ptr \in DOMAIN mem
        /\ ops' = [ops EXCEPT ![th] = [IdleOp EXCEPT !.pc = "replace", !.index = ptr, !.old = mem[ptr]]]
    /\ UNCHANGED <<mem, next, len, handed, nfreed, faults, rvars>>

free_write(th) ==
    LET op == ops[th] IN
    /\ op.pc = "replace"
    /\ mem' = [mem EXCEPT ![op.index] = EmptySlot]
    /\ IF op.old.live
       THEN /\ ops' = [ops EXCEPT ![th] = [op EXCEPT !.pc = "dec"]]
            /\ UNCHANGED faults
       ELSE /\ ops' = [ops EXCEPT ![th] = [IdleOp EXCEPT !.pc = "panic"]]
            /\ faults' = faults \cup {"free_null"}
    /\ UNCHANGED <<next, len, handed, nfreed, rvars>>

\* self.len.fetch_sub(1) on the AtomicU32.
free_return(th) ==
    LET op == ops[th] IN
    /\ op.pc = "dec"
    /\ len' = fetch_sub(len)
    /\ nfreed' = nfreed + 1
    /\ ops' = [ops EXCEPT ![th] = IdleOp]
    /\ UNCHANGED <<mem, next, handed, faults, rvars>>

InitStore ==
    /\ net = "store"
    /\ store = [i \in Slots |-> EmptySlot]
    /\ next = 1
    /\ head = <<>>
    /\ tasks = <<>>
    /\ body = <<>>
    /\ returned = FALSE
    /\ stats = NewStats
    /\ fired = EmptyBag
    /\ faults = {}
    /\ bound_writes = [i \in Slots |-> 0]
    /\ first = NoResult
    /\ StoreNew
    /\ WireNew
    /\ ParserNew
    /\ HeapNew

NextStore ==
    \E th \in Threads :
        \/ alloc_cell(th)
        \/ alloc_var(th)
        \/ alloc_write(th)
        \/ alloc_return(th)
        \/ free_read(th)
        \/ free_write(th)
        \/ free_return(th)

SpecStore == InitStore /\ [][NextStore]_vars

\* No thread is inside a method of the store.
Quiescent == \A th \in Threads : ops[th].pc \in {"idle", "panic"}

\* Var::set(term_ref): one atomic swap of the word; the previous word is
\* decoded and returned.  seen records whose write the swap took out.
\* (a set whose store is lost: the previous word is returned, the word stays)
Var_set_NoStore(c) ==
    /\ calls[c].pc = "idle"
    /\ \E term_ref \in VarValues \ {VarValue_try_from(<<0, U32(0)>>)} :
        /\ word' = word
        /\ calls' = [calls EXCEPT ![c] = [pc |-> "done", term_ref |-> term_ref,
                                          old |-> VarValue_try_from(word.value),
                                          seen |-> word.by]]
    /\ UNCHANGED <<store, next, tasks, stats, head, net, fired, faults, bound_writes,
                   first, body, returned, mem, len, ops, handed, nfreed,
                   state_vars, parsed, heap, cell_ptrs, heap_call>>
Var_set(c) ==
    /\ calls[c].pc = "idle"
    /\ \E term_ref \in VarValues \ {VarValue_try_from(<<0, U32(0)>>)} :
        /\ word' = [value |-> VarValue_into_u64(term_ref), by |-> c]
        /\ calls' = [calls EXCEPT ![c] = [pc |-> "done", term_ref |-> term_ref,
                                          old |-> VarValue_try_from(word.value),
                                          seen |-> word.by]]
    /\ UNCHANGED <<store, next, tasks, stats, head, net, fired, faults, bound_writes,
                   first, body, returned, mem, len, ops, handed, nfreed,
                   state_vars, parsed, heap, cell_ptrs, heap_call>>

InitVar ==
    /\ net = "var"
    /\ store = [i \in Slots |-> EmptySlot]
    /\ next = 1
    /\ head = <<>>
    /\ tasks = <<>>
    /\ body = <<>>
    /\ returned = FALSE
    /\ stats = NewStats
    /\ fired = EmptyBag
    /\ faults = {}
    /\ bound_writes = [i \in Slots |-> 0]
    /\ first = NoResult
    /\ StoreNew
    /\ WireNew
    /\ ParserNew
    /\ HeapNew

NextVar == \E c \in Callers : Var_set(c)

SpecVar == InitVar /\ [][NextVar]_vars

\* The statistics alone: one LocalStats, on which each inc_* method is
\* called at most once, in any order, and which a fresh GlobalStats then
\* absorbs with update.
inc_once ==
    \E n \in StatNames :
        /\ tasks[1].pc = "update"
        /\ tasks[1].st[n] = 0
        /\ tasks' = SetTask(1, [tasks[1] EXCEPT !.st = inc(@, n)])
        /\ UNCHANGED <<store, next, stats, head, net, fired, faults, bound_writes,
                       first, body, returned, svars>>

InitStats ==
    /\ net = "stats"
    /\ store = [i \in Slots |-> EmptySlot]
    /\ next = 1
    /\ head = <<>>
    /\ tasks = <<Task("update", "eqn", IdleRegs, NewFreePtrs, NewStats)>>
    /\ body = <<>>
    /\ returned = FALSE
    /\ stats = NewStats
    /\ fired = EmptyBag
    /\ faults = {}
    /\ bound_writes = [i \in Slots |-> 0]
    /\ first = NoResult
    /\ StoreNew
    /\ WireNew
    /\ ParserNew
    /\ HeapNew

NextStats ==
    \/ inc_once
    \/ stats_update(1) /\ UNCHANGED <<first, body, returned, svars>>

SpecStats == InitStats /\ [][NextStats]_vars

\* ------------------------------------------------------------ the parser
\* the number of identifiers parsed
MaxParsed == 5

\* The var alternative of parse_term on the identifier name: an identifier
\* that is pending is removed from the table and its wire returned; any other
\* gets a new wire from net.var(), whose first half goes into the table and
\* whose second half is returned.
\* (a lookup that leaves the entry in the table)
parse_term_var_NoRemove(name) ==
    /\ Len(parsed) < MaxParsed
    /\ IF name \in DOMAIN state_vars
       THEN /\ state_vars' = state_vars
            /\ parsed' = Append(parsed, <<name, state_vars[name]>>)
            /\ UNCHANGED <<store, next>>
       ELSE /\ next <= Capacity
            /\ store' = alloc(store, next, <<VarSlot(Unset)>>)
            /\ next' = next + 1
            /\ state_vars' = [n \in DOMAIN state_vars \cup {name} |->
                                 IF n = name THEN next ELSE state_vars[n]]
            /\ parsed' = Append(parsed, <<name, next>>)
    /\ UNCHANGED <<tasks, stats, head, net, fired, faults, bound_writes, first, body,
                   returned, mem, len, ops, handed, nfreed, word, calls,
                   heap, cell_ptrs, heap_call>>
parse_term_var(name) ==
    /\ Len(parsed) < MaxParsed
    /\ IF name \in DOMAIN state_vars
       THEN /\ state_vars' = [n \in DOMAIN state_vars \ {name} |-> state_vars[n]]
            /\ parsed' = Append(parsed, <<name, state_vars[name]>>)
            /\ UNCHANGED <<store, next>>
       ELSE /\ next <= Capacity
            /\ store' = alloc(store, next, <<VarSlot(Unset)>>)
            /\ next' = next + 1
            /\ state_vars' = [n \in DOMAIN state_vars \cup {name} |->
                                 IF n = name THEN next ELSE state_vars[n]]
            /\ parsed' = Append(parsed, <<name, next>>)
    /\ UNCHANGED <<tasks, stats, head, net, fired, faults, bound_writes, first, body,
                   returned, mem, len, ops, handed, nfreed, word, calls,
                   heap, cell_ptrs, heap_call>>

InitParser ==
    /\ net = "parser"
    /\ store = [i \in Slots |-> EmptySlot]
    /\ next = 1
    /\ head = <<>>
    /\ tasks = <<>>
    /\ body = <<>>
    /\ returned = FALSE
    /\ stats = NewStats
    /\ fired = EmptyBag
    /\ faults = {}
    /\ bound_writes = [i \in Slots |-> 0]
    /\ first = NoResult
    /\ StoreNew
    /\ WireNew
    /\ ParserNew
    /\ HeapNew

NextParser == \E name \in {"a", "b", "R"} : parse_term_var(name)

SpecParser == InitParser /\ [][NextParser]_vars

\* ------------------------------------------------------------ the heap's methods
\* Heap::alloc_ctr(ports): the entry is Some(Cell::Ctr(..)) for Some ports and
\* None for None; _alloc_index takes the index from next, counts it in len
\* and writes the entry; the pointer returned is CellPtr::CtrPtr.
alloc_ctr(ports) ==
    /\ heap_call.status # "panic"
    /\ heap.next < HeapCapacity
    /\ heap' = [mem |-> [heap.mem EXCEPT ![heap.next] =
                            [kind |-> IF ports = <<>> THEN "none" ELSE "Ctr",
                             ports |-> ports]],
                next |-> heap.next + 1, len |-> heap.len + 1]
    /\ cell_ptrs' = Append(cell_ptrs, [req |-> "ctr",
                                       ptr |-> [tag |-> "CtrPtr", index |-> heap.next]])
    /\ UNCHANGED <<store, next, tasks, stats, head, net, fired, faults, bound_writes,
                   first, body, returned, mem, len, ops, handed, nfreed, word, calls,
                   state_vars, parsed, heap_call>>

\* Heap::alloc_dup(ports): as alloc_ctr with Cell::Dup; the pointer returned
\* is built with CellPtr::CtrPtr here too.
alloc_dup(ports) ==
    /\ heap_call.status # "panic"
    /\ heap.next < HeapCapacity
    /\ heap' = [mem |-> [heap.mem EXCEPT ![heap.next] =
                            [kind |-> IF ports = <<>> THEN "none" ELSE "Dup",
                             ports |-> ports]],
                next |-> heap.next + 1, len |-> heap.len + 1]
    /\ cell_ptrs' = Append(cell_ptrs, [req |-> "dup",
                                       ptr |-> [tag |-> "CtrPtr", index |-> heap.next]])
    /\ UNCHANGED <<store, next, tasks, stats, head, net, fired, faults, bound_writes,
                   first, body, returned, mem, len, ops, handed, nfreed, word, calls,
                   state_vars, parsed, heap_call>>

\* Heap::set_cell(cell_ptr, value) on the i-th pointer handed out: the
\* assertion on the pointer's tag, then _set_cell, which asserts
\* index < len and writes Some(value).
set_cell(i, value) ==
    LET cell_ptr == cell_ptrs[i].ptr
        ok == /\ value.kind = (IF cell_ptr.tag = "CtrPtr" THEN "Ctr" ELSE "Dup")
              /\ cell_ptr.index < heap.len
    IN /\ heap_call.status # "panic"
       /\ heap' = IF ok THEN [heap EXCEPT !.mem[cell_ptr.index] = value] ELSE heap
       /\ heap_call' = [op |-> "set_cell", ptr |-> i, value |-> value,
                        status |-> IF ok THEN "ok" ELSE "panic", ports |-> <<>>]
       /\ UNCHANGED <<store, next, tasks, stats, head, net, fired, faults, bound_writes,
                      first, body, returned, mem, len, ops, handed, nfreed, word, calls,
                      state_vars, parsed, cell_ptrs>>

\* Heap::consume_cell(ptr) on the i-th pointer handed out: _get_term asserts
\* index < len and reads the entry; a cell's two ports are returned, None
\* panics.  The entry is left in place.  The record of the call keeps the
\* cell of a set_cell on the same pointer that came right before it.
consume_cell(i) ==
    LET cell_ptr == cell_ptrs[i].ptr
        term == heap.mem[cell_ptr.index]
        ok == cell_ptr.index < heap.len /\ term.kind \in {"Ctr", "Dup"}
    IN /\ heap_call.status # "panic"
       /\ heap_call' = [op |-> "consume_cell", ptr |-> i,
                        value |-> IF heap_call.op = "set_cell" /\ heap_call.ptr = i
                                  THEN heap_call.value
                                  ELSE [kind |-> "none", ports |-> <<>>],
                        status |-> IF ok THEN "ok" ELSE "panic",
                        ports |-> IF ok THEN term.ports ELSE <<>>]
       /\ UNCHANGED <<store, next, tasks, stats, head, net, fired, faults, bound_writes,
                      first, body, returned, mem, len, ops, handed, nfreed, word, calls,
                      state_vars, parsed, heap, cell_ptrs>>

InitHeap ==
    /\ net = "heap"
    /\ store = [i \in Slots |-> EmptySlot]
    /\ next = 1
    /\ head = <<>>
    /\ tasks = <<>>
    /\ body = <<>>
    /\ returned = FALSE
    /\ stats = NewStats
    /\ fired = EmptyBag
    /\ faults = {}
    /\ bound_writes = [i \in Slots |-> 0]
    /\ first = NoResult
    /\ StoreNew
    /\ WireNew
    /\ ParserNew
    /\ HeapNew

NextHeap ==
    \/ \E ports \in {<<>>} \cup ({"Era", "x"} \X {"Era", "x"}) :
          alloc_ctr(ports) \/ alloc_dup(ports)
    \/ \E i \in DOMAIN cell_ptrs :
          \/ \E kind \in {"Ctr", "Dup"}, ports \in {"Era", "x"} \X {"Era", "x"} :
                set_cell(i, [kind |-> kind, ports |-> ports])
          \/ consume_cell(i)

SpecHeap == InitHeap /\ [][NextHeap]_vars

SlotFaults == {"read_freed", "wrong_kind", "free_empty", "use_after_free"}

\* ------------------------------------------------------------ properties
\* The nets  x ~ y  &  x ~ A  &  y ~ B  and the identity of the pair (A, B)
\* in the history of firings.
ConnNets == {"conn_era_era", "conn_lam_era", "conn_lam_dup"}
Other(eqn, w) == IF eqn[1] = w THEN eqn[2] ELSE eqn[1]
AB(n) == Pair(Other(InitialNet(n).body[2], 1), Other(InitialNet(n).body[3], 2))
InteractionsAB == CopiesIn(AB(net), fired)

\* C1: for x ~ y, x ~ A, y ~ B run as three parallel tasks, the interaction
\* between A and B never fires more than once, and it has fired exactly once
\* when the scope has ended.
C1_ExactlyOneInteraction ==
    net \in ConnNets =>
        /\ InteractionsAB <= 1
        /\ Stopped => InteractionsAB = 1

\* C2: the word of a wire only moves forward along Unset, LinkedTo*, Bound:
\* a word that is set is never Unset again, and a word that holds a bound
\* value holds a bound value after every later step.
C2_WordSequence ==
    [][\A i \in Slots :
          store[i].kind = "var" =>
              /\ store[i].w # Unset => store'[i].w # Unset
              /\ IsBound(store[i].w) => IsBound(store'[i].w)]_vars

\* C3: the word of a wire goes to a bound value at most once.
C3_BoundAtMostOnce == \A i \in Slots : bound_writes[i] <= 1

\* C4: no task ever triggers a slot fault (a free of an empty slot, a read
\* of a freed slot, a read of a slot as the wrong kind).
C4_NoSlotFault == faults \cap SlotFaults = {}

\* C5: when eval returns, the slots that are still allocated are exactly
\* the head wires: allocated - freed = number of head wires.
LiveSlots == {i \in Slots : store[i].live}
HeadSlots == {head[i] : i \in DOMAIN head}
C5_OnlyHeadsRemain ==
    Returned => /\ Cardinality(LiveSlots) = Len(head)
                /\ LiveSlots = HeadSlots

\* C6: when eval returns, every head wire holds a bound value.
C6_HeadsBound == Returned => \A h \in HeadSlots : IsBound(store[h].w)

\* C7: the slot of a head wire is never freed.
C7_HeadsNeverFreed == \A h \in HeadSlots : store[h].live

\* C8: two runs of eval on the same initial net that both return end with
\* the same contents of the head wires.
C8_SameResult == (Returned /\ first # NoResult) => HeadContents = first

\* C9: when eval returns, annihilations() + commutations() is the number of
\* interactions that fired.
C9_CountersPartition ==
    Returned => annihilations(stats) + commutations(stats) = BagCardinality(fired)

\* The outcome of evaluating the equation (L, R) in the current store: the
\* rule selected, the counters after it, and the pointer/agent pairing the
\* rule is called with.
Operand(tp) ==
    IF tp = Era THEN OEra
    ELSE IF store[tp].kind = "cell" THEN OCell(tp, store[tp].c) ELSE OVar(tp)
Outcome(L, R) ==
    LET l == Operand(L)
        r == Operand(R)
    IN IF l.k = "var" \/ r.k = "var"
       THEN LET tk == NewTask("eqn", l, r, NewFreePtrs)
            IN [rule |-> tk.cont, st |-> tk.st,
                args |-> IF tk.asg.op = "cell"
                         THEN {Arg(tk.asg.p, tk.asg.c.kind, tk.asg.c.ports)} ELSE {}]
       ELSE LET res == interact(l, r, NewFreePtrs, NewStats, next)
            IN [rule |-> res.rule, st |-> res.st, args |-> res.args]
TermRefs == {Era} \cup {i \in Slots : store[i].live}
OwnPairing(L, R) ==
    {Arg(p, store[p].c.kind, store[p].c.ports) : p \in {q \in {L, R} \ {Era} : store[q].kind = "cell"}}

\* C10: for every pair of term references (L, R), evaluating (L, R) and
\* (R, L) selects the same rule and increments the same counter, and both
\* calls pair each agent's slot pointer with that agent's kind and ports.
C10_OrderIndependent ==
    \A L \in TermRefs, R \in TermRefs :
        /\ Outcome(L, R).rule = Outcome(R, L).rule
        /\ Outcome(L, R).st = Outcome(R, L).st
        /\ Outcome(L, R).args = OwnPairing(L, R)
        /\ Outcome(R, L).args = OwnPairing(L, R)

\* C11: eval has returned only if every task spawned during the evaluation,
\* from the equation buffer or by another task, has completed, and then the
\* equation buffer is empty and no task has an equation left to evaluate.
C11_ReturnAfterAllTasks ==
    returned => /\ body = <<>>
                /\ \A t \in DOMAIN tasks : tasks[t].pc = "done" /\ tasks[t].l = ONone

\* eval has returned from a net whose tasks spawned further tasks.
C11_Witness == returned /\ Len(tasks) > Len(InitialNet(net).body)

\* The tasks that have read both sides of their equation and found an agent
\* or Era on each: the next step of such a task applies a rule.
AtRule == {t \in DOMAIN tasks : tasks[t].pc = "eval" /\ Resolved(tasks[t].l) /\ Resolved(tasks[t].r)}
\* The rule application task t is about to perform.
RuleOf(t) == interact(tasks[t].l, tasks[t].r, tasks[t].fp, tasks[t].st, next)
\* The equations a rule application schedules: those it spawns and the one
\* it goes on to evaluate itself.
Scheduled(res) ==
    {<<res.spawns[i].l, res.spawns[i].r>> : i \in DOMAIN res.spawns}
        \cup (IF res.l.k = "none" THEN {} ELSE {<<res.l, res.r>>})
\* The buffer entries a rule application adds (pushes before any split).
Pushed(t, ptr) == \E i \in DOMAIN RuleOf(t).fp : RuleOf(t).fp[i] = ptr

\* C12: when two lambdas (a b) ~ (c d) or two applications @(a b) ~ @(c d)
\* interact, the rule schedules the sub-equations a = c and b = d and puts
\* both agent slots into the buffer of slots to release.
C12_AnnihilationSchedulesPorts ==
    \A t \in AtRule :
        LET l == tasks[t].l
            r == tasks[t].r
        IN (/\ l.k = "cell" /\ r.k = "cell"
            /\ l.c.kind = r.c.kind /\ l.c.kind \in {"Lam", "App"}
            /\ l.c.ports # NoPorts /\ r.c.ports # NoPorts)
           => /\ Scheduled(RuleOf(t)) =
                    {<<OTerm(l.c.ports[1]), OTerm(r.c.ports[1])>>,
                     <<OTerm(l.c.ports[2]), OTerm(r.c.ports[2])>>}
              /\ Pushed(t, l.p) /\ Pushed(t, r.p)

\* C13: when two duplicators with equal labels interact, [a b] ~ [c d], the
\* rule increments anni_dup_dup once, schedules a = c and b = d and pushes
\* both slots; in the net [x x] ~ [y y] the evaluation ends with
\* anni_dup_dup = 1 and both duplicator slots released.
C13_EqualDupsAnnihilate ==
    /\ \A t \in AtRule :
        LET l == tasks[t].l
            r == tasks[t].r
        IN (/\ l.k = "cell" /\ r.k = "cell"
            /\ l.c.kind = "Dup" /\ r.c.kind = "Dup" /\ l.c.lbl = r.c.lbl
            /\ l.c.ports # NoPorts /\ r.c.ports # NoPorts)
           => /\ RuleOf(t).st["anni_dup_dup"] = tasks[t].st["anni_dup_dup"] + 1
              /\ Scheduled(RuleOf(t)) =
                    {<<OTerm(l.c.ports[1]), OTerm(r.c.ports[1])>>,
                     <<OTerm(l.c.ports[2]), OTerm(r.c.ports[2])>>}
    /\ (net = "dup_dup" /\ Stopped)
           => /\ stats["anni_dup_dup"] = 1
              /\ ~store[3].live /\ ~store[4].live
              /\ "free_empty" \notin faults

LiveCells == {i \in Slots : store[i].live /\ store[i].kind = "cell"}

\* C15: the net [a b]_k ~ [c d]_j with k # j over four fresh head wires is
\* evaluated to the end: no task panics, comm_dup_dup = 1, exactly four new
\* wires are allocated, there are no more agent slots than the two the net
\* started with, and all four head wires are bound.
C15_DifferentLabelsCommute ==
    (net = "dup_dup_comm" /\ Stopped)
        => /\ ~Panicked
           /\ stats["comm_dup_dup"] = 1
           /\ stats["alloc_vars"] = 4
           /\ Cardinality(LiveCells) <= 2
           /\ \A h \in HeadSlots : store[h].live /\ IsBound(store[h].w)

\* The number of equations a rule application schedules, and how many of
\* them have the port value p on one side.
NumScheduled(res) == Len(res.spawns) + (IF res.l.k = "none" THEN 0 ELSE 1)
WithPort(res, p) ==
    Cardinality({i \in DOMAIN res.spawns : OTerm(p) \in {res.spawns[i].l, res.spawns[i].r}})
        + (IF res.l.k # "none" /\ OTerm(p) \in {res.l, res.r} THEN 1 ELSE 0)
\* The tasks about to apply a rule to two agents of different kinds, both
\* with their ports written.
AtCrossKind ==
    {t \in AtRule : /\ tasks[t].l.k = "cell" /\ tasks[t].r.k = "cell"
                    /\ tasks[t].l.c.kind # tasks[t].r.c.kind
                    /\ tasks[t].l.c.ports # NoPorts /\ tasks[t].r.c.ports # NoPorts}

NewAgents(res) ==
    {o.c : o \in {e[1] : e \in Scheduled(res)} \cup {e[2] : e \in Scheduled(res)}}
        \ {NoCell}
\* The tasks about to duplicate: a duplicator meets a lambda or an
\* application.
AtCommute == {t \in AtCrossKind : "Dup" \in {tasks[t].l.c.kind, tasks[t].r.c.kind}}

\* C17: in a 4-way duplication of an agent of kind K1 against an agent of
\* kind K2, the new agents are two of kind K1 and two of kind K2, one kind
\* over the port pairs (x1, x3) and (x4, x2) and the other over (x4, x1) and
\* (x2, x3), and every scheduled equation pairs a port of one original
\* agent with a new agent of the other original agent's kind.
C17_DuplicationShape ==
    \A t \in AtCommute :
        LET res == RuleOf(t)
            l == tasks[t].l.c
            r == tasks[t].r.c
            x1 == next
            x2 == next + 1
            x3 == next + 2
            x4 == next + 3
            new == NewAgents(res)
            OfKind(k) == {a.ports : a \in {b \in new : b.kind = k}}
            PatA == {<<x1, x3>>, <<x4, x2>>}
            PatB == {<<x4, x1>>, <<x2, x3>>}
            Pairs(e, orig, other) ==
                \E i \in 1..2 : \E s \in 1..2 :
                    /\ e[s] = OTerm(orig.ports[i])
                    /\ e[3 - s].k = "cell" /\ e[3 - s].p = None
                    /\ e[3 - s].c.kind = other.kind
        IN /\ Cardinality(new) = 4
           /\ {OfKind(l.kind), OfKind(r.kind)} = {PatA, PatB}
           /\ \A e \in Scheduled(res) : Pairs(e, l, r) \/ Pairs(e, r, l)

\* C18: in the net whose only equation is Era ~ Era no slot is ever
\* allocated, freed or written and no fault or panic happens; once the
\* tasks have stopped, anni_era_era = 1 and every other counter is 0.
C18_EraEraOnlyCounts ==
    net = "era_era"
        => /\ store = StartState("era_era").store
           /\ next = StartState("era_era").next
           /\ bound_writes = [i \in Slots |-> 0]
           /\ faults = {} /\ ~Panicked
           /\ \A t \in DOMAIN tasks : tasks[t].fp = <<>>
           /\ Stopped => stats = [NewStats EXCEPT !["anni_era_era"] = 1]
\* eval has returned from the net Era ~ Era.
C18_Witness == net = "era_era" /\ returned /\ stats["anni_era_era"] = 1

\* C19: the net (x x) ~ (y y) with no heads is evaluated to the end without
\* a panic; the annihilation leaves the two connects x ~ y, which resolve as
\* wire-to-wire connects (anni_lam_lam = 1, connects = 2, no rule fired but
\* the annihilation), and no slot is left allocated.
C19_TwoConnectsSameWires ==
    (net = "lam_lam" /\ Stopped)
        => /\ ~Panicked
           /\ stats["anni_lam_lam"] = 1
           /\ stats["connects"] = 2
           /\ BagCardinality(fired) = 1
           /\ LiveSlots = {}

\* The wire in slot h is bound to a lambda whose two ports are one and the
\* same wire.
BoundToIdentity(h) ==
    /\ store[h].live /\ store[h].kind = "var" /\ store[h].w.t = "Cell"
    /\ LET c == store[store[h].w.p] IN
        /\ c.live /\ c.kind = "cell" /\ c.c.kind = "Lam"
        /\ c.c.ports # NoPorts /\ c.c.ports[1] = c.c.ports[2] /\ c.c.ports[1] # Era

\* C20: every evaluation of the net with head r and the single equation
\* (x x) ~ @(r (y y)) stops without a panic, with anni_lam_lam >= 1 or
\* comm_app_lam >= 1 and with r bound to a lambda whose two ports are the
\* same wire.
C20_IdentityApplied ==
    (net = "app_lam" /\ Stopped)
        => /\ ~Panicked
           /\ stats["anni_lam_lam"] >= 1 \/ stats["comm_app_lam"] >= 1
           /\ BoundToIdentity(head[1])

\* The agent the wire in slot h is bound to.
AgentOf(h) == store[store[h].w.p].c

\* C21: in the net with heads a, b and the single equation (x x) ~ [a b],
\* a head is only ever bound to a lambda whose two ports are one and the
\* same wire (a bound word is final), and every evaluation stops without a
\* panic with both heads bound so, the two lambdas over different wires.
C21_IdentityDuplicated ==
    net = "lam_dup"
        => /\ \A h \in HeadSlots : IsBound(store[h].w) => BoundToIdentity(h)
           /\ Stopped
                => /\ ~Panicked
                   /\ BoundToIdentity(head[1])
                   /\ BoundToIdentity(head[2])
                   /\ AgentOf(head[1]).ports[1] # AgentOf(head[2]).ports[1]

\* The allocations that have taken their index and not returned yet.
InFlight == {th \in Threads : ops[th].pc \in {"write", "count"}}

\* C22: any two allocations on one store, sequential or concurrent, take
\* distinct indices, none of them NIL (0), and when an allocation is about
\* to return, its slot holds exactly the content it was called with (Unset
\* for alloc_var).
C22_AllocFresh ==
    /\ \A i, j \in DOMAIN handed : i # j => handed[i][1] # handed[j][1]
    /\ \A i \in DOMAIN handed : \A th \in InFlight : handed[i][1] # ops[th].index
    /\ \A th, ti \in InFlight : th # ti => ops[th].index # ops[ti].index
    /\ \A i \in DOMAIN handed : handed[i][1] # 0
    /\ \A th \in InFlight : ops[th].index # 0
    /\ \A th \in Threads :
        (ops[th].pc = "count" /\ ops[th].index \in DOMAIN mem)
            => mem[ops[th].index] = ops[th].content
\* Two concurrent allocations, of a wire and of an agent, have both written
\* their slot and are about to return.
C22_Witness ==
    /\ ops[1].pc = "count" /\ ops[2].pc = "count"
    /\ ops[1].content = VarSlot(Unset) /\ ops[2].content.kind = "cell"

\* C23: an allocation requested once the indices handed out have reached the
\* capacity is a fatal fault: no slot at an index >= capacity is ever written
\* and no pointer to such a slot is ever returned.
C23_NoAllocBeyondCapacity ==
    /\ "out_of_bounds" \notin faults
    /\ \A th \in InFlight : ops[th].index < StoreCapacity
    /\ \A i \in DOMAIN handed : handed[i][1] < StoreCapacity

\* C24: in every quiescent state of the store len() is the number of
\* allocations minus the number of successful frees; next stays above every
\* index handed out, and no index is handed out twice, freed or not.
C24_LenTracksOccupancy ==
    /\ Quiescent => len = U32(Len(handed) - nfreed)
    /\ \A i \in DOMAIN handed : handed[i][1] < next
    /\ \A i, j \in DOMAIN handed : i < j => handed[i][1] # handed[j][1]

\* StoreIter::next: index starts at 0; while index < store.len() the index is
\* incremented and the slot at the new index is read, a Some is yielded and
\* a None skipped.  Visited is the set of indices the loop reads, iter the
\* slots it yields, in order.
Visited == {i \in 1..(MaxIndex + 1) : u32_lt(U32(i - 1), len)}
iter == SelectSeq([i \in 1..Cardinality(Visited) |-> i], LAMBDA i : mem[i].live)

\* C25: after any sequence of allocations and frees, iter() yields exactly
\* the slots that are allocated and not yet freed, each once, also those
\* whose index is larger than the live count.  (Stated for the states in
\* which every slot the loop reads is an initialised slot of the arena.)
C25_IterYieldsAllocated ==
    (/\ Quiescent
     /\ \A i \in Visited : i \in DOMAIN mem /\ mem[i] # Uninit)
        => /\ {iter[k] : k \in DOMAIN iter} = {i \in DOMAIN mem : mem[i].live}
           /\ \A k, l \in DOMAIN iter : k # l => iter[k] # iter[l]

\* C26: in-place reuse never changes the kind of a slot: the pointer a
\* commutation pops from the task's free-pointer buffer to reuse in place is
\* the pointer of a slot that held an agent, never of a wire.  (The tasks
\* concerned are those about to duplicate a pair of agents in commute; the
\* pointer is the one popped for the copy of the duplicator, after the two
\* pushes.)
C26_ReuseTargetsAgents ==
    \A t \in AtRule :
        LET res == RuleOf(t)
            d == CHOOSE x \in res.args : x.kind = "Dup"
            o == CHOOSE x \in res.args : x.kind # "Dup"
            fp1 == push(push(tasks[t].fp, o.ptr), d.ptr)
        IN (/\ res.rule \in {"commute_app_dup", "commute_lam_dup"}
            /\ res.allocs # <<>>
            /\ fp1 # <<>>)
                => store[pop(fp1)].kind = "cell"

\* C27: for every wire state (Unset, LinkedTo(p), Bound(p), BoundToEra; p a
\* 32-bit index other than NIL) decoding the encoded word gives the state
\* back, different states have different words, and Unset is the word 0;
\* the word of the wire is always the encoding of the state it decodes to.
C27_EncodingRoundTrip ==
    /\ \A v \in VarValues : VarValue_try_from(VarValue_into_u64(v)) = v
    /\ \A v, u \in VarValues : v # u => VarValue_into_u64(v) # VarValue_into_u64(u)
    /\ VarValue_into_u64([t |-> "Unset", p |-> U32(0)]) = <<0, U32(0)>>
    /\ VarValue_into_u64(VarValue_try_from(word.value)) = word.value
    /\ \A c \in Callers :
        (calls[c].pc = "done" /\ calls[c].seen # 0)
            => calls[c].old = calls[calls[c].seen].term_ref
\* A caller has read back a link to the wire with the largest index, written
\* by another caller.
C27_Witness ==
    \E c \in Callers :
        /\ calls[c].pc = "done"
        /\ calls[c].seen # 0
        /\ calls[c].old = [t |-> "Var", p |-> U32Max]

\* C28: the values returned by concurrent Var::set calls on one fresh wire
\* are linearizable: exactly one call observes Unset, every other call
\* observes the value written by exactly one other call, no write is
\* observed by two callers, and only the last write is observed by nobody.
C28_SetLinearizable ==
    LET Returned_set == {c \in Callers : calls[c].pc = "done"} IN
    Returned_set # {} =>
        /\ Cardinality({c \in Returned_set : calls[c].seen = 0}) = 1
        /\ \A c \in Returned_set :
            IF calls[c].seen = 0
            THEN calls[c].old.t = "Unset"
            ELSE /\ calls[c].seen \in Returned_set \ {c}
                 /\ calls[c].old = calls[calls[c].seen].term_ref
        /\ \A c, d \in Returned_set : c # d => calls[c].seen # calls[d].seen
        /\ {c \in Returned_set : \A d \in Returned_set : calls[d].seen # c} = {word.by}
        /\ word.value = VarValue_into_u64(calls[word.by].term_ref)
\* All callers have returned, two of them having written the same value.
C28_Witness ==
    /\ \A c \in Callers : calls[c].pc = "done"
    /\ \E c, d \in Callers : c # d /\ calls[c].term_ref = calls[d].term_ref

OnceEach == [n \in StatNames |-> IF n \in {"alloc_cells", "alloc_vars"} THEN 0 ELSE 1]

C31_SelfLoopTolerated == net = "self_conn" => (faults = {} /\ ~Panicked)

\* C32: a bind that finds its wire w linked to another wire frees w exactly
\* once and walks on: when the walker of a bind has swapped a link out of w and
\* is about to free it, w is still allocated, so that this free is its only one.
C32_LinkedWireFreedOnce ==
    \A t \in DOMAIN tasks :
        (tasks[t].pc = "wfree" /\ tasks[t].cont \in {"bind_era", "bind_cell"})
            => store[tasks[t].var_ptr].live

\* C33: when connect(left, right) has linked right to left and the swap on
\* right returned a bound value, the connect binds exactly that value to left:
\* an Era found is bound with bind_era(left), an agent found is read from its
\* slot and bound with bind_cell(left, its pointer, its content); the bind
\* swaps the value into left once, where it is stored (left was Unset) or
\* meets the value left was bound to, and never walks on from left.
C33_ConnectForwardsValue ==
    [][\A t \in DOMAIN tasks :
         LET tk == tasks[t]
             tn == tasks'[t]
             w == store[tk.var_ptr].w
             fromFirstWalk == tk.lp # 0 /\ tk.rps = 0
         IN tn # tk =>
            /\ (tk.pc = "walk" /\ tk.cont = "conn1" /\ store[tk.var_ptr].live
                   /\ IsBound(w)) =>
                 /\ store'[tk.var_ptr].w = VVar(tk.lp)
                 /\ tn.var_ptr = tk.lp
                 /\ IF w.t = "Era"
                    THEN tn.pc = "walk" /\ tn.cont = "bind_era" /\ tn.asg = AsgEra
                    ELSE tn.pc = "pre" /\ tn.needcell = w.p /\ ~tn.needvar
            /\ (tk.pc = "pre" /\ fromFirstWalk) =>
                 /\ tn.pc = "walk" /\ tn.cont = "bind_cell" /\ tn.var_ptr = tk.lp
                 /\ tn.asg = AsgCell(tk.needcell, store[tk.needcell].c)
                 /\ store[tk.needcell].live
            /\ (tk.pc = "walk" /\ tk.cont \in {"bind_era", "bind_cell"}
                   /\ fromFirstWalk) =>
                 /\ tk.var_ptr = tk.lp /\ store[tk.lp].live
                 /\ store'[tk.lp].w = (IF tk.asg.op = "era" THEN VEra
                                        ELSE VCell(tk.asg.p))
                 /\ store[tk.lp].w.t # "Var"
                 /\ tn.lp = 0
                 /\ store[tk.lp].w = Unset => (tn.pc # "eval" /\ fired' = fired)
                 /\ IsBound(store[tk.lp].w) =>
                      \/ tn.pc = "eval" /\ fired' = fired
                      \/ tk.asg.op = "era" /\ store[tk.lp].w.t = "Era"
                           /\ fired' = fired (+) SetToBag({Pair(Ident(OEra), Ident(OEra))})]_vars

C33_Witness ==
    \E t \in DOMAIN tasks :
        /\ tasks[t].lp # 0 /\ tasks[t].rps = 0
        /\ tasks[t].pc = "walk" /\ tasks[t].cont = "bind_cell"
        /\ tasks[t].var_ptr = tasks[t].lp
        /\ IsBound(store[tasks[t].lp].w)

\* C34: every task frees what remains in its free-pointer buffer when it
\* completes, whichever spawn function created it: a task that has reached
\* the merge of its statistics with pointers still in its buffer is one that
\* frees them afterwards (a task of spawn_eval_cell_term).
C34_BufferFreedOnCompletion ==
    \A t \in DOMAIN tasks :
        (tasks[t].pc = "update" /\ tasks[t].fp # <<>>) => tasks[t].sk = "cell"

\* C35: no agent slot is released twice: the pointer of an agent's slot is
\* held at most once in the free-pointer buffers of all tasks together, and
\* not at all once the slot has been freed.
C35_AgentSlotReleasedOnce ==
    \A p \in Slots :
        LET held == {e \in (DOMAIN tasks) \X (1..2 * Capacity) :
                        e[2] <= Len(tasks[e[1]].fp) /\ tasks[e[1]].fp[e[2]] = p}
        IN store[p].kind = "cell" =>
              Cardinality(held) <= (IF store[p].live THEN 1 ELSE 0)

\* C36: each allocated agent is an operand of at most one rewrite firing:
\* over the history of firings, the slot of an agent occurs at most once
\* (a firing that pairs a slot with itself counts it twice).
C36_AgentReducedOnce ==
    \A p \in Slots :
        LET firings == {e \in BagToSet(fired) : e[1] = p \/ e[2] = p}
            both == {e \in firings : e[1] = p /\ e[2] = p}
        IN store[p].kind = "cell" =>
              /\ both = {}
              /\ Cardinality(firings) <= 1
              /\ \A e \in firings : CopiesIn(e, fired) = 1

\* C37: when a duplicator with label k commutes with a lambda or an
\* application, every duplicator among the agents the rule creates carries
\* the label k, and every lambda or application it creates carries none.
C37_LabelsPreserved ==
    \A t \in AtRule :
        LET l == tasks[t].l
            r == tasks[t].r
            d == IF l.c.kind = "Dup" THEN l.c ELSE r.c
            res == RuleOf(t)
            made == {res.allocs[i].c : i \in {j \in DOMAIN res.allocs :
                                               res.allocs[j].kind = "cell"}}
                      \cup {e[1].c : e \in {q \in Scheduled(res) : q[1].k = "cell"}}
                      \cup {e[2].c : e \in {q \in Scheduled(res) : q[2].k = "cell"}}
        IN (l.k = "cell" /\ r.k = "cell"
              /\ {l.c.kind, r.c.kind} \in {{"Dup", "Lam"}, {"Dup", "App"}})
           => \A c \in made : c.lbl = (IF c.kind = "Dup" THEN d.lbl ELSE None)

\* C38: a bind of an agent that lives on the stack only (cell_ptr = None)
\* allocates one slot for it at most once in its walk, and none when the
\* swap finds the wire bound and the bind ends in an interaction: such a swap,
\* and every swap after the walk's first, leaves the store's next index alone.
C38_StackBindAllocation ==
    [][\A t \in DOMAIN tasks :
         LET tk == tasks[t]
             stackBind == /\ tk.pc = "walk" /\ tk.cont = "bind_cell"
                          /\ tk.asg.op = "cell" /\ tk.asg.p = None
                          /\ store[tk.var_ptr].live
         IN (stackBind /\ tasks'[t] # tk
                /\ (IsBound(store[tk.var_ptr].w) \/ tk.prev # None))
            => (next' = next /\ tasks'[t].st["alloc_cells"] = tk.st["alloc_cells"])]_vars

\* C39: the first and the second occurrence of an identifier are given the
\* same wire and every later pair of occurrences a wire of its own, which no
\* other occurrence shares; the table of pending identifiers holds exactly
\* the identifiers parsed an odd number of times, each with the wire of its
\* last occurrence.
C39_IdentifierPairs ==
    LET occ(name) == {i \in DOMAIN parsed : parsed[i][1] = name}
        rank(i) == Cardinality({j \in occ(parsed[i][1]) : j <= i})
        paired(i, j) == /\ parsed[i][1] = parsed[j][1]
                        /\ rank(i) % 2 = 1
                        /\ rank(j) = rank(i) + 1
    IN /\ \A i, j \in DOMAIN parsed :
            i < j => (parsed[i][2] = parsed[j][2] <=> paired(i, j))
       /\ \A i \in DOMAIN parsed : store[parsed[i][2]] = VarSlot(Unset)
       /\ DOMAIN state_vars =
              {parsed[i][1] : i \in {j \in DOMAIN parsed : rank(j) % 2 = 1
                    /\ rank(j) = Cardinality(occ(parsed[j][1]))}}
       /\ \A i \in DOMAIN parsed :
            rank(i) = Cardinality(occ(parsed[i][1])) /\ rank(i) % 2 = 1
                => state_vars[parsed[i][1]] = parsed[i][2]

C39_Witness ==
    \E i, j, k \in DOMAIN parsed :
        /\ i < j /\ j < k
        /\ parsed[i][1] = parsed[j][1] /\ parsed[j][1] = parsed[k][1]
        /\ parsed[i][2] = parsed[j][2] /\ parsed[k][2] # parsed[i][2]
        /\ parsed[k][1] \in DOMAIN state_vars
        /\ DOMAIN state_vars # {parsed[k][1]}

\* C40: alloc_dup returns a pointer tagged DupPtr and alloc_ctr one tagged
\* CtrPtr; set_cell on a returned pointer with a cell of the kind that was
\* allocated succeeds and leaves the cell in the pointer's slot, and a
\* consume_cell that follows it on that pointer returns the ports written.
C40_HeapCellRoundTrip ==
    LET given == cell_ptrs[heap_call.ptr]
        matching == heap_call.value.kind = (IF given.req = "dup" THEN "Dup" ELSE "Ctr")
    IN /\ \A i \in DOMAIN cell_ptrs :
            cell_ptrs[i].ptr.tag = (IF cell_ptrs[i].req = "dup" THEN "DupPtr" ELSE "CtrPtr")
       /\ (heap_call.op = "set_cell" /\ matching) =>
            /\ heap_call.status = "ok"
            /\ heap.mem[given.ptr.index] = heap_call.value
       /\ (heap_call.op = "consume_cell" /\ matching) =>
            /\ heap_call.status = "ok"
            /\ heap_call.ports = heap_call.value.ports

============================================================================
